---- MODULE Spec2Model ----
(***************************************************************************)
(* Tropical House Customizer: the options record, the prompt builder, the  *)
(* App handlers (src/App.tsx 1-429) and the Gemini service                 *)
(* (src/App.tsx 430-553: generateBaseModelViews, generateHouseImage).      *)
(*                                                                         *)
(* Short texts (an error message, a data URL) are TLA+ strings and their   *)
(* template literals are concatenations.  A prompt is the sequence of its  *)
(* parts, in order: every piece of fixed text is one part, and every       *)
(* quoted literal and every interpolated ${...} value is a part of its     *)
(* own, so that "the prompt contains the literal 'X'" is "some part        *)
(* equals X" and appending a text is appending a part.                     *)
(***************************************************************************)
EXTENDS Integers, Sequences, FiniteSets, TLC

VARIABLES
  options,             \* useState<CustomizationOptions>   App.tsx:29
  budget,              \* useState<number>                  App.tsx:30
  baseImageFile,       \* File | null, here loaded or not   App.tsx:31
  generatedImageUrls,  \* useState<string[]>                App.tsx:33
  numberOfVariations,  \* useState<number>                  App.tsx:34
  isLoading,           \* useState<boolean>                 App.tsx:35
  error,               \* string | null                     App.tsx:36
  fetchPc,             \* position of the mount effect fetchBaseImage
  inv,                 \* the handler invocations that are in flight
  last,                \* what the most recent handler step did (history)
  calls                \* the buildPrompt calls observed so far (history)

vars == << options, budget, baseImageFile, generatedImageUrls,
           numberOfVariations, isLoading, error, fetchPc, inv, last, calls >>

(***************************************************************************)
(* The options record.                                                     *)
(***************************************************************************)
\* App.tsx:12-21
initialOptions ==
  [ colorTheme      |-> "Tropical Light",
    doors           |-> "Glass Sliding",
    windows         |-> "Jalousie",
    frontYard       |-> "Tropical Garden",
    landscaping     |-> "None",
    outdoorFeatures |-> "None",
    roof            |-> "Standard Metal Roof",
    furniture       |-> "None" ]

\* types.ts:6-15, the eight field names
FieldNames ==
  { "colorTheme", "doors", "windows", "frontYard", "landscaping",
    "outdoorFeatures", "roof", "furniture" }

\* types.ts:7-14, the enumerated domain of each field
Domain(field) ==
  CASE field = "colorTheme" ->
         {"Neutral Modern", "Warm Natural", "Dark Industrial", "Tropical Light"}
    [] field = "doors" ->
         {"Narra Wood", "Steel Security", "Glass Sliding", "Double Swing Wood"}
    [] field = "windows" ->
         {"Clear Glass Sliding", "Tinted Glass", "Jalousie", "Awning Windows"}
    [] field = "frontYard" ->
         {"Tropical Garden", "Modern Tiled Patio", "Simple Bermuda Grass",
          "Gravel & Planters"}
    [] field = "landscaping" ->
         {"None", "Minimalist Zen Garden", "Flowering Tropical Paradise",
          "Rock Garden with Cacti", "Vegetable Patch"}
    [] field = "outdoorFeatures" ->
         {"None", "2-Seater Kape Table", "4-Seater Outdoor Dining",
          "Bamboo Bench", "Hammock (Duyan)"}
    [] field = "roof" ->
         {"Standard Metal Roof", "Metal Roof with Solar Panels", "Clay Tile Roof"}
    [] field = "furniture" ->
         {"None", "Wicker Sofa Set", "Wooden Dining Table for 4",
          "Pair of Sun Loungers"}

(***************************************************************************)
(* buildPrompt, App.tsx:112-182: a closure over the options of the render  *)
(* it belongs to (the dependency list [options], App.tsx:182), here the    *)
(* parameter opts.                                                         *)
(***************************************************************************)
\* App.tsx:115, 120 and 169: the fixed text that opens the furniture clause,
\* the landscaping-theme clause and the outdoor-features clause.
FurnitureHead == "\n- **Furniture:** Add a '"
LandscapingThemeHead ==
  "\n  - **Landscaping Theme:** Within the front yard, introduce a '"
OutdoorFeaturesHead == "- **Outdoor Features:** Add the following feature: '"

\* App.tsx:114-115, the text of the furniture clause
furnitureClause(opts) ==
  << FurnitureHead,
     opts.furniture,
     "'. Place it naturally within any visible front yard or patio area. The furniture must be weather-resistant, complement the overall design, and be appropriate for a tropical climate." >>

\* App.tsx:119-124, the text of the landscaping clause with its legend
landscapingClause(opts) ==
  << LandscapingThemeHead,
     opts.landscaping,
     "' theme.\n    - '",
     "Minimalist Zen Garden",
     "': Use raked white sand, a few carefully placed boulders, and perhaps a single bonsai-style tree.\n    - '",
     "Flowering Tropical Paradise",
     "': Add an abundance of colorful, local flowering plants like hibiscus, bougainvillea, and birds of paradise.\n    - '",
     "Rock Garden with Cacti",
     "': A dry-style garden with various types of rocks, pebbles, and succulents or cacti suitable for a tropical climate.\n    - '",
     "Vegetable Patch",
     "': Create a neat, organized section with raised garden beds for growing vegetables." >>

\* App.tsx:127-138
Preamble ==
  << "You are an expert architectural visualizer specializing in tropical design for the Philippines. Your task is to take the provided 3D render of an L-shaped modular home and place it into a photorealistic scene, modifying it according to the specifications below. The final image should be high-resolution and perfectly suited for a humid, tropical climate, maintaining the original structure's shape, perspective, and camera angle.\n\n**Scene & Setting:** Create a lush, tropical environment in the Philippines to serve as the background and surroundings for the house.\n\n**Lighting & Realism:** The scene must be rendered with hyper-realistic lighting appropriate for the Philippines. This includes soft, diffused sunlight (like a bright, slightly overcast day) that casts gentle shadows. Incorporate subtle ambient occlusion to give the structure and surrounding objects a sense of depth and grounding.\n\n**Material & Texture Details:**\n- **Wood:** When '",
     "Narra Wood",
     "' or other wood accents are specified, render them with a rich, visible grain and a semi-gloss finish, showcasing the natural beauty of treated tropical hardwood.\n- **Metal:** Metal roofs and trims should exhibit a subtle, realistic sheen that catches the light, indicating their material quality without being overly glossy.\n- **Glass:** All glass surfaces (windows, sliding doors) must be highly reflective, clearly mirroring the lush tropical surroundings, clouds, and sky to enhance realism.\n\n**Modifications to the House:**\n\n" >>

\* App.tsx:140-145
ColorSection(opts) ==
  << "- **Color & Style:** Apply the '",
     opts.colorTheme,
     "' theme to the building.\n  - '",
     "Neutral Modern",
     "': Use light gray and white tones for walls and trims to reflect heat.\n  - '",
     "Warm Natural",
     "': Use beige, cream, and local tropical wood accents (like Narra or Mahogany).\n  - '",
     "Dark Industrial",
     "': Use charcoal gray or black with matte black metal trims, often used for modern tropical homes.\n  - '",
     "Tropical Light",
     "': Use off-white or very light pastel colors with natural wood accents, creating an airy feel.\n\n" >>

\* App.tsx:146-151
DoorsSection(opts) ==
  << "- **Doors:** Change the doors to '",
     opts.doors,
     "'. They must be suitable for tropical weather (durable against humidity and heat).\n  - '",
     "Narra Wood",
     "': A classic, beautiful, and durable Filipino hardwood door.\n  - '",
     "Steel Security",
     "': A practical, strong door for security.\n  - '",
     "Glass Sliding",
     "': Large sliding glass doors to maximize light and views, with strong frames.\n  - '",
     "Double Swing Wood",
     "': A grand entrance with two swinging wooden doors.\n\n" >>

\* App.tsx:152-157
WindowsSection(opts) ==
  << "- **Windows:** Change the windows to '",
     opts.windows,
     "'. They should promote ventilation and natural light.\n  - '",
     "Clear Glass Sliding",
     "': Standard sliding windows.\n  - '",
     "Tinted Glass",
     "': Darkened glass to reduce solar glare and heat.\n  - '",
     "Jalousie",
     "': The classic Filipino window with glass slats for maximum airflow, even during light rain.\n  - '",
     "Awning Windows",
     "': Windows hinged at the top, allowing ventilation while providing shelter from rain.\n\n" >>

\* App.tsx:158-162
FrontYardSection(opts) ==
  << "- **Front Yard:** Create a front yard in a '",
     opts.frontYard,
     "' style.\n  - '",
     "Tropical Garden",
     "': Lush greenery with local Filipino plants like plumeria (kalachuchi), hibiscus (gumamela), palms, and broad-leafed plants.\n  - '",
     "Modern Tiled Patio",
     "': Use non-slip ceramic or concrete tiles for a clean, modern outdoor living space, perhaps with a small patch of grass.\n  - '",
     "Simple Bermuda Grass",
     "': A clean, manicured lawn.\n  - '",
     "Gravel & Planters",
     "': Use of decorative gravel (white or gray) with large concrete planters for a low-maintenance, modern look." >>

\* A plausible slip: a legend that lost its last entry.
RoofSectionShortLegend(opts) ==
  << "\n\n- **Roof:** Modify the roof to be a '",
     opts.roof,
     "'.\n  - '",
     "Standard Metal Roof",
     "': A typical long-span corrugated metal roof, common in the Philippines.\n  - '",
     "Metal Roof with Solar Panels",
     "': Add sleek, modern solar panels to the metal roof.\n\n" >>

\* App.tsx:163-168
RoofSection(opts) ==
  << "\n\n- **Roof:** Modify the roof to be a '",
     opts.roof,
     "'.\n  - '",
     "Standard Metal Roof",
     "': A typical long-span corrugated metal roof, common in the Philippines.\n  - '",
     "Metal Roof with Solar Panels",
     "': Add sleek, modern solar panels to the metal roof.\n  - '",
     "Clay Tile Roof",
     "': Add a classic Spanish-style clay tile (tegula) roof, which helps keep the interior cool.\n\n" >>

\* App.tsx:169-174
OutdoorFeaturesSection(opts) ==
  << OutdoorFeaturesHead,
     opts.outdoorFeatures,
     "'.\n  - If not '",
     "None",
     "', place it naturally within the scene.\n  - '",
     "2-Seater Kape Table",
     "': A small cafe table set for two, for enjoying coffee outdoors.\n  - '",
     "4-Seater Outdoor Dining",
     "': A larger table set for four.\n  - '",
     "Bamboo Bench",
     "': A simple, locally-styled bamboo bench.\n  - '",
     "Hammock (Duyan)",
     "': A traditional Filipino hammock." >>

\* App.tsx:175-181
Closing ==
  << "\n\n**Important Rules:**\n1.  ONLY modify the aspects of the house listed above. Maintain the L-shape.\n2.  The result must be a single, photorealistic image.\n3.  Do not add any text, labels, or watermarks.\n\nThe output should ONLY be the final, modified image." >>

\* A plausible slip: the furniture clause without its test of 'None'.
furniturePromptAlways(opts) == furnitureClause(opts)

\* App.tsx:113-116
furniturePrompt(opts) ==
  IF opts.furniture # "None" THEN furnitureClause(opts) ELSE << >>

\* A plausible slip: the landscaping clause without its test of 'None'.
landscapingPromptAlways(opts) == landscapingClause(opts)

\* App.tsx:118-125
landscapingPrompt(opts) ==
  IF opts.landscaping # "None" THEN landscapingClause(opts) ELSE << >>

\* A plausible slip: a template that also quotes the budget of the render.
buildPromptWithBudget(opts) ==
  Preamble \o ColorSection(opts) \o DoorsSection(opts) \o WindowsSection(opts)
    \o FrontYardSection(opts) \o landscapingPrompt(opts)
    \o RoofSection(opts) \o OutdoorFeaturesSection(opts) \o furniturePrompt(opts)
    \o << "\n- **Budget:** ", ToString(budget) >> \o Closing

\* App.tsx:127-181, the template literal: the prompt as the sequence of its
\* parts, for the options of the render whose buildPrompt is called.
buildPrompt(opts) ==
  Preamble \o ColorSection(opts) \o DoorsSection(opts) \o WindowsSection(opts)
    \o FrontYardSection(opts) \o landscapingPrompt(opts)
    \o RoofSection(opts) \o OutdoorFeaturesSection(opts) \o furniturePrompt(opts)
    \o Closing

(***************************************************************************)
(* Bounds of the model.                                                    *)
(***************************************************************************)
\* The variation counts tried are 1..MaxVariations.
MaxVariations == 2
\* The records given to buildPrompt in SpecPrompt differ from initialOptions
\* in at most MaxChangedFields fields.
MaxChangedFields == 2

\* The handler invocations that can be in flight at once: a handler that
\* passes the base-image check takes a free slot and gives it back when it
\* ends.  Two slots let two invocations overlap; any number can follow one
\* another.
Batches == { 1, 2 }

(***************************************************************************)
(* Inputs of the handlers.                                                 *)
(***************************************************************************)
\* Properties every object inherits from Object.prototype: "key in obj" is
\* true of them for the object literal initialOptions (App.tsx:25).
ObjectPrototypeKeys ==
  { "constructor", "toString", "valueOf", "hasOwnProperty", "isPrototypeOf",
    "propertyIsEnumerable", "toLocaleString", "__proto__" }

\* e.target.name of a change event: the eight fields, the name of the
\* variations select (App.tsx:282), the name of the budget input
\* (App.tsx:342), a name that is none of them, and two inherited names.
NameInputs ==
  FieldNames \cup { "variations", "budget", "notAField", "toString", "constructor" }

\* e.target.value of a change event: any string.  Two are tried: "None" is in
\* the domain of three fields, "Wicker Sofa Set" in the domain of furniture.
ValueInputs == { "None", "Wicker Sofa Set" }

\* Number(e.target.value) of the variations select, App.tsx:284.  The select
\* offers 1, 3 and 5 (App.tsx:287-289); generateHouseImage takes any count,
\* and the counts 1..MaxVariations are tried.
VariationInputs == 1..MaxVariations

\* Two positions of the budget slider, App.tsx:343-345.
BudgetMin == 350000
BudgetMax == 2000000
BudgetInputs == { BudgetMin, BudgetMax }

(***************************************************************************)
(* Texts.                                                                  *)
(***************************************************************************)
\* error: string | null, App.tsx:36.  null is the empty sequence and a
\* message is the sequence of that one string.
null == << >>
Message(text) == << text >>

\* App.tsx:44
pathsToTry == << "/prefab.png", "/image.png", "/image-0.png" >>

\* App.tsx:522, the text appended after the prompt when variationCount > 1
VariationInstruction ==
  "\n\n**Variation Instruction:** Generate a unique, creative variation based on the above criteria. Show a different interpretation."

\* App.tsx:467-476, the fixed prompt of generateBaseModelViews
BaseViewsPrompt ==
  << "You are an expert architectural visualizer. Based on the provided image of an L-shaped modular home, create a single, cohesive image displaying photorealistic renders of the structure from multiple key angles: front, rear, and both sides. Arrange these four views in a clean 2x2 grid.\n\n**Style & Climate:** The design should be a modern tropical style suitable for the Philippines.\n\n**Rendering & Materials:**\n- **Lighting:** Use realistic lighting for a bright, slightly overcast tropical day to produce soft shadows and avoid harsh glare. Include subtle ambient occlusion for depth.\n- **Materials:** Render materials with realistic properties. Glass surfaces must be clearly reflective, and metal elements should have a slight sheen.\n- **Background:** Each view must have a simple, neutral gray background.\n\n**Output:** The final output must be ONLY the generated 2x2 grid image, with no text or labels." >>

(***************************************************************************)
(* The Gemini service, App.tsx:430-553.                                    *)
(*                                                                         *)
(* A request is the record handed to ai.models.generateContent.  A         *)
(* response is the sequence candidates[0].content.parts; a part carries    *)
(* inlineData or it does not.  A thrown or rejected value is a record that *)
(* says whether it is an Error and what its message is.                    *)
(***************************************************************************)
\* The base64 payload the generator returns for variation i of the batch in
\* slot b: an opaque string, different for every request in flight.
ImageData(b, i) == "b" \o ToString(b) \o "v" \o ToString(i)

TextPart == [ inlineData |-> FALSE, mimeType |-> "", data |-> "" ]
InlinePart(data) == [ inlineData |-> TRUE, mimeType |-> "image/png", data |-> data ]

\* What a settled generateContent call can give for variation i of batch b:
\* a response with an image part, a response without one, or a rejection.
Settlements(b, i) ==
  { [ fulfilled |-> TRUE,  response |-> << TextPart, InlinePart(ImageData(b, i)) >> ],
    [ fulfilled |-> TRUE,  response |-> << TextPart >> ],
    [ fulfilled |-> FALSE, response |-> << >> ] }

\* The value a rejected generateContent call rejects with.
TransportError == [ isError |-> TRUE, message |-> "Network error" ]

\* App.tsx:438-454.  fileToPart resolves, or rejects with the reader's
\* ProgressEvent (443), or throws one of its two Errors (447, 449).
fileToPartOutcomes ==
  { [ ok |-> TRUE,  thrown |-> [ isError |-> FALSE, message |-> "" ] ],
    [ ok |-> FALSE, thrown |-> [ isError |-> FALSE, message |-> "" ] ],
    [ ok |-> FALSE, thrown |-> [ isError |-> TRUE, message |-> "Invalid data URL" ] ],
    [ ok |-> FALSE,
      thrown |-> [ isError |-> TRUE,
                   message |-> "Could not parse MIME type from data URL" ] ] }

\* App.tsx:538 and 489: parts.find(part => part.inlineData)
HasInlineData(response) == \E k \in 1..Len(response) : response[k].inlineData

imagePartFromResponse(response) ==
  response[CHOOSE k \in 1..Len(response) :
             /\ response[k].inlineData
             /\ \A j \in 1..(k - 1) : ~response[j].inlineData]

\* App.tsx:542 and 493: `data:${mimeType};base64,${data}`
DataUrl(part) == "data:" \o part.mimeType \o ";base64," \o part.data

\* A plausible slip: the directive appended whatever the count.
variationPromptAlways(prompt, variationCount) ==
  prompt \o << VariationInstruction >>

\* App.tsx:521-523
variationPrompt(prompt, variationCount) ==
  IF variationCount > 1 THEN prompt \o << VariationInstruction >> ELSE prompt

\* A plausible slip: an off-by-one in the length of the array of requests.
generationPromisesOneMore(prompt, variationCount) ==
  [ index \in 1..(variationCount + 1) |->
      [ model |-> "gemini-2.5-flash-image",
        image |-> "baseImagePart",
        text  |-> variationPrompt(prompt, variationCount) ] ]

\* App.tsx:519-532: Array.from({ length: variationCount }).map(...), the
\* requests of one batch, all issued in the one synchronous map.
generationPromises(prompt, variationCount) ==
  [ index \in 1..variationCount |->
      [ model |-> "gemini-2.5-flash-image",
        image |-> "baseImagePart",
        text  |-> variationPrompt(prompt, variationCount) ] ]

\* App.tsx:482-486, the one request of generateBaseModelViews
baseViewsRequest ==
  << [ model |-> "gemini-2.5-flash-image",
       image |-> "baseImagePart",
       text  |-> BaseViewsPrompt ] >>

\* A plausible slip: the values collected in the order the promises settle
\* (pushing each result as it arrives) instead of by index.
ValuesInArrivalOrder(arrivals) == [ i \in 1..Len(arrivals) |-> i ]

\* App.tsx:534: the array Promise.all resolves with holds, at index i, the
\* value of the i-th promise, whenever it was fulfilled.  arrivals lists the
\* settlements in the order they happened.
PromiseAllValues(arrivals) ==
  [ i \in 1..Len(arrivals) |->
      (CHOOSE k \in 1..Len(arrivals) : arrivals[k].index = i) ]

responsesOf(arrivals) ==
  [ i \in 1..Len(arrivals) |-> arrivals[PromiseAllValues(arrivals)[i]].response ]

\* App.tsx:537-546: responses.map(...) throws at the first response, in
\* index order, that has no image part.  The message names index + 1 of the
\* 0-based index, which is the 1-based position used here.
MissingImage(responses) == { i \in 1..Len(responses) : ~HasInlineData(responses[i]) }

FirstMissing(responses) ==
  CHOOSE i \in MissingImage(responses) : \A j \in MissingImage(responses) : i <= j

\* A plausible slip: the message built from index instead of index + 1.
NoImageErrorZeroBased(i) ==
  [ isError |-> TRUE,
    message |-> "The AI model did not return an image for variation "
                  \o ToString(i - 1) \o "." ]

\* App.tsx:544-545
NoImageError(i) ==
  [ isError |-> TRUE,
    message |-> "The AI model did not return an image for variation "
                  \o ToString(i) \o "." ]

\* App.tsx:548-550
CountMismatchError ==
  [ isError |-> TRUE,
    message |-> "The number of generated images did not match the requested count." ]

\* App.tsx:497-498
NoBaseViewsImageError ==
  [ isError |-> TRUE,
    message |-> "The AI model did not return an image for the base model views." ]

NoThrow == [ isError |-> FALSE, message |-> "" ]

\* A plausible slip: an extraction that skips the responses without an image
\* and leaves it to the final check to notice.
generateHouseImageSkipMissing(responses, variationCount) ==
  LET kept == SelectSeq(responses, HasInlineData)
      finalImageUrls ==
        [ i \in 1..Len(kept) |-> DataUrl(imagePartFromResponse(kept[i])) ]
  IN  IF Len(finalImageUrls) # variationCount
        THEN [ ok |-> FALSE, urls |-> << >>, thrown |-> CountMismatchError ]
        ELSE [ ok |-> TRUE, urls |-> finalImageUrls, thrown |-> NoThrow ]

\* A plausible slip: a best-effort batch that keeps the responses that carry
\* an image and drops the others.
generateHouseImageBestEffort(responses, variationCount) ==
  LET kept == SelectSeq(responses, HasInlineData)
  IN  [ ok |-> TRUE,
        urls |-> [ i \in 1..Len(kept) |-> DataUrl(imagePartFromResponse(kept[i])) ],
        thrown |-> NoThrow ]

\* App.tsx:537-552: what generateHouseImage does with the responses once
\* Promise.all has resolved: the list of data URLs, or a throw.
generateHouseImageResult(responses, variationCount) ==
  IF MissingImage(responses) # {}
    THEN [ ok |-> FALSE, urls |-> << >>, thrown |-> NoImageError(FirstMissing(responses)) ]
    ELSE LET finalImageUrls ==
               [ i \in 1..Len(responses) |-> DataUrl(imagePartFromResponse(responses[i])) ]
         IN  IF Len(finalImageUrls) # variationCount
               THEN [ ok |-> FALSE, urls |-> << >>, thrown |-> CountMismatchError ]
               ELSE [ ok |-> TRUE, urls |-> finalImageUrls, thrown |-> NoThrow ]

\* App.tsx:489-498: what generateBaseModelViews does with its response; the
\* handler wraps the one URL in a list (App.tsx:223).
generateBaseModelViewsResult(response) ==
  IF HasInlineData(response)
    THEN [ ok |-> TRUE, urls |-> << DataUrl(imagePartFromResponse(response)) >>,
           thrown |-> NoThrow ]
    ELSE [ ok |-> FALSE, urls |-> << >>, thrown |-> NoBaseViewsImageError ]

(***************************************************************************)
(* The App component, App.tsx:28-427.                                      *)
(*                                                                         *)
(* inv[b] is the run in slot b: unused, encoding (generateHouseImage or    *)
(* generateBaseModelViews awaits fileToPart) or awaiting (the requests are *)
(* issued and the handler awaits them).  A run keeps what its handler read *)
(* when it was invoked: the count, and the options of the render whose     *)
(* buildPrompt() it called (App.tsx:196), which stand for the prompt       *)
(* string: the prompt of the run is buildPrompt of those options.          *)
(***************************************************************************)
Unused ==
  [ pc |-> "unused", kind |-> "none", options |-> initialOptions,
    variationCount |-> 0, issued |-> 0, arrivals |-> << >> ]

\* The prompt argument of the run's service call (App.tsx:198, 467).
PromptOf(run) ==
  IF run.kind = "generate" THEN buildPrompt(run.options) ELSE BaseViewsPrompt

\* The requests the run has issued.
RequestsOf(run) ==
  IF run.pc # "awaiting" THEN << >>
  ELSE IF run.kind = "generate"
         THEN generationPromises(PromptOf(run), run.variationCount)
         ELSE baseViewsRequest

\* last describes the step just taken when that step ended a handler
\* invocation: which handler, how it ended ("precondition": at the
\* base-image check; "success"; "failure": in its catch block), and for the
\* last two the slot and the run as it was at the end.  Quiet after any
\* other step.  hadResults tells whether the results slot held results just
\* before that step.
Quiet ==
  [ op |-> "none", outcome |-> "none", batch |-> 0, run |-> Unused,
    hadResults |-> FALSE ]

\* The state after the first render and the start of the mount effect:
\* the useState initial values (App.tsx:29-36), then setIsLoading(true) and
\* setError(null) of fetchBaseImage (App.tsx:41-42), which is fetching the
\* first path.
Init ==
  /\ options = initialOptions
  /\ budget = BudgetMin
  /\ baseImageFile = FALSE
  /\ generatedImageUrls = << >>
  /\ numberOfVariations = 1
  /\ isLoading = TRUE
  /\ error = null
  /\ fetchPc = [ at |-> "fetch", path |-> 1 ]
  /\ inv = [ b \in Batches |-> Unused ]
  /\ last = Quiet
  /\ calls = << >>

\* App.tsx:48-66 and 93-96: one fetch(path) of the loop settles.
fetchBaseImage(outcome) ==
  /\ fetchPc.at = "fetch"
  /\ CASE outcome = "ok" ->
            /\ fetchPc' = [ fetchPc EXCEPT !.at = "blob" ]
            /\ UNCHANGED << error, isLoading >>
       [] outcome = "notFound" /\ fetchPc.path < Len(pathsToTry) ->
            /\ fetchPc' = [ fetchPc EXCEPT !.path = @ + 1 ]
            /\ UNCHANGED << error, isLoading >>
       [] outcome = "notFound" /\ fetchPc.path = Len(pathsToTry) ->
            /\ fetchPc' = [ at |-> "done", path |-> 0 ]
            /\ error' = Message("Failed to load the base house image. Tried /prefab.png, /image.png and /image-0.png, but they were not found. Please ensure an image is included in the prompt.")
            /\ isLoading' = FALSE
       [] outcome = "status" ->
            /\ fetchPc' = [ at |-> "done", path |-> 0 ]
            /\ error' = Message("Failed to fetch base image. "
                                 \o "Server responded with status: " \o "500")
            /\ isLoading' = FALSE
       [] outcome = "rejected" ->
            /\ fetchPc' = [ at |-> "done", path |-> 0 ]
            /\ error' = Message("Failed to fetch base image. " \o "Failed to fetch")
            /\ isLoading' = FALSE
  /\ last' = Quiet
  /\ UNCHANGED << options, budget, baseImageFile, generatedImageUrls,
                  numberOfVariations, inv, calls >>

\* App.tsx:68-96: response.blob() settles.
processBaseImage(ok) ==
  /\ fetchPc.at = "blob"
  /\ fetchPc' = [ at |-> "done", path |-> 0 ]
  /\ IF ok
       THEN /\ baseImageFile' = TRUE
            /\ UNCHANGED error
       ELSE /\ error' = Message("Failed to process the loaded base image. "
                                 \o "blob failed")
            /\ UNCHANGED baseImageFile
  /\ isLoading' = FALSE
  /\ last' = Quiet
  /\ UNCHANGED << options, budget, generatedImageUrls, numberOfVariations, inv, calls >>

\* App.tsx:23-26: `key in initialOptions` is true of the object's own keys and
\* of the keys it inherits from Object.prototype.
isCustomizationKey(key) ==
  key \in (DOMAIN initialOptions) \cup ObjectPrototypeKeys

\* App.tsx:270: { ...prev, [name]: value }
WithField(prev, name, value) ==
  [ k \in (DOMAIN prev) \cup { name } |-> IF k = name THEN value ELSE prev[k] ]

\* App.tsx:267-272
handleOptionChange(name, value) ==
  /\ IF isCustomizationKey(name)
       THEN options' = WithField(options, name, value)
       ELSE UNCHANGED options
  /\ last' = Quiet
  /\ UNCHANGED << budget, baseImageFile, generatedImageUrls, numberOfVariations,
                  isLoading, error, fetchPc, inv, calls >>

\* App.tsx:347
setBudget(value) ==
  /\ budget' = value
  /\ last' = Quiet
  /\ UNCHANGED << options, baseImageFile, generatedImageUrls, numberOfVariations,
                  isLoading, error, fetchPc, inv, calls >>

\* App.tsx:284
setNumberOfVariations(value) ==
  /\ numberOfVariations' = value
  /\ last' = Quiet
  /\ UNCHANGED << options, budget, baseImageFile, generatedImageUrls,
                  isLoading, error, fetchPc, inv, calls >>

\* App.tsx:234-241
handleReset ==
  /\ generatedImageUrls' = << >>
  /\ options' = initialOptions
  /\ error' = null
  /\ last' = Quiet
  /\ UNCHANGED << budget, baseImageFile, numberOfVariations, isLoading,
                  fetchPc, inv, calls >>

\* A plausible slip: the loading flag raised before the base-image check.
failFastAfterLoading(op, text) ==
  /\ error' = Message(text)
  /\ isLoading' = TRUE
  /\ last' = [ Quiet EXCEPT !.op = op, !.outcome = "precondition",
                            !.hadResults = generatedImageUrls # << >> ]
  /\ UNCHANGED << options, budget, baseImageFile, generatedImageUrls,
                  numberOfVariations, fetchPc, inv, calls >>

\* App.tsx:185-188 and 211-214: setError(...); return
failFast(op, text) ==
  /\ error' = Message(text)
  /\ last' = [ Quiet EXCEPT !.op = op, !.outcome = "precondition",
                            !.hadResults = generatedImageUrls # << >> ]
  /\ UNCHANGED << options, budget, baseImageFile, generatedImageUrls,
                  numberOfVariations, isLoading, fetchPc, inv, calls >>

UnusedBatches == { b \in Batches : inv[b].pc = "unused" }
NextBatch == CHOOSE b \in UnusedBatches : \A c \in UnusedBatches : b <= c

\* App.tsx:184-198, up to the first await inside generateHouseImage
\* (App.tsx:516): the check, the two setters, buildPrompt() and the call.
handleGenerate ==
  IF ~baseImageFile
    THEN failFast("handleGenerate",
                  "Base image is not loaded. Cannot generate a new design.")
    ELSE /\ UnusedBatches # {}
         /\ isLoading' = TRUE
         /\ error' = null
         /\ inv' = [ inv EXCEPT ![NextBatch] =
                       [ pc |-> "encoding", kind |-> "generate",
                         options |-> options,
                         variationCount |-> numberOfVariations,
                         issued |-> 0, arrivals |-> << >> ] ]
         /\ last' = Quiet
         /\ UNCHANGED << options, budget, baseImageFile, generatedImageUrls,
                         numberOfVariations, fetchPc, calls >>

\* App.tsx:210-222, up to the first await inside generateBaseModelViews
\* (App.tsx:478).
handleGenerateBaseViews ==
  IF ~baseImageFile
    THEN failFast("handleGenerateBaseViews",
                  "Base image is not loaded. Cannot generate views.")
    ELSE /\ UnusedBatches # {}
         /\ isLoading' = TRUE
         /\ error' = null
         /\ inv' = [ inv EXCEPT ![NextBatch] =
                       [ pc |-> "encoding", kind |-> "baseViews",
                         options |-> initialOptions, variationCount |-> 1,
                         issued |-> 0, arrivals |-> << >> ] ]
         /\ last' = Quiet
         /\ UNCHANGED << options, budget, baseImageFile, generatedImageUrls,
                         numberOfVariations, fetchPc, calls >>

HandlerOf(run) ==
  IF run.kind = "generate" THEN "handleGenerate" ELSE "handleGenerateBaseViews"

\* App.tsx:201 and 225
errorMessage(err) ==
  IF err.isError THEN err.message ELSE "An unknown error occurred."

\* App.tsx:202 and 226
FailurePrefix(run) ==
  IF run.kind = "generate" THEN "Failed to generate the image. "
                           ELSE "Failed to generate base model views. "

\* A plausible slip: a catch block without setGeneratedImageUrls([]).
CatchKeepingResults(b, run, err) ==
  /\ error' = Message(FailurePrefix(run) \o errorMessage(err))
  /\ isLoading' = FALSE
  /\ inv' = [ inv EXCEPT ![b] = Unused ]
  /\ last' = [ op |-> HandlerOf(run), outcome |-> "failure", batch |-> b, run |-> run,
                hadResults |-> generatedImageUrls # << >> ]
  /\ UNCHANGED << options, budget, baseImageFile, generatedImageUrls,
                  numberOfVariations, fetchPc, calls >>

\* App.tsx:200-207 and 224-231: the catch block, then the finally block.
Catch(b, run, err) ==
  /\ error' = Message(FailurePrefix(run) \o errorMessage(err))
  /\ generatedImageUrls' = << >>
  /\ isLoading' = FALSE
  /\ inv' = [ inv EXCEPT ![b] = Unused ]
  /\ last' = [ op |-> HandlerOf(run), outcome |-> "failure", batch |-> b, run |-> run,
                hadResults |-> generatedImageUrls # << >> ]
  /\ UNCHANGED << options, budget, baseImageFile, numberOfVariations, fetchPc, calls >>

\* A plausible slip: setIsLoading(false) at the end of the catch block
\* instead of in a finally block, so that the success path leaves the flag.
SucceedWithoutFinally(b, run, urls) ==
  /\ generatedImageUrls' = urls
  /\ inv' = [ inv EXCEPT ![b] = Unused ]
  /\ last' = [ op |-> HandlerOf(run), outcome |-> "success", batch |-> b, run |-> run,
                hadResults |-> generatedImageUrls # << >> ]
  /\ UNCHANGED << options, budget, baseImageFile, numberOfVariations, isLoading,
                  error, fetchPc, calls >>

\* App.tsx:199, 223 and the finally block 205-207, 229-231
Succeed(b, run, urls) ==
  /\ generatedImageUrls' = urls
  /\ isLoading' = FALSE
  /\ inv' = [ inv EXCEPT ![b] = Unused ]
  /\ last' = [ op |-> HandlerOf(run), outcome |-> "success", batch |-> b, run |-> run,
                hadResults |-> generatedImageUrls # << >> ]
  /\ UNCHANGED << options, budget, baseImageFile, numberOfVariations, error,
                  fetchPc, calls >>

\* App.tsx:516-532 and 478-486: fileToPart settles; when it resolves, every
\* request of the batch is issued before the next await.
fileToPart(b, outcome) ==
  /\ inv[b].pc = "encoding"
  /\ IF outcome.ok
       THEN /\ inv' = [ inv EXCEPT ![b].pc = "awaiting",
                                   ![b].issued =
                                      Len(RequestsOf([ inv[b] EXCEPT !.pc = "awaiting" ])) ]
            /\ last' = Quiet
            /\ UNCHANGED << options, budget, baseImageFile, generatedImageUrls,
                            numberOfVariations, isLoading, error, fetchPc, calls >>
       ELSE Catch(b, inv[b], outcome.thrown)

Arrived(run) == { run.arrivals[k].index : k \in 1..Len(run.arrivals) }

\* App.tsx:534-552 and 482-498: request i of batch b settles.  A rejection
\* rejects Promise.all at once; the last fulfilment resolves it, and the
\* handler goes on to its end in the same turn.
settle(b, i, s) ==
  /\ inv[b].pc = "awaiting"
  /\ i \in (1..inv[b].issued) \ Arrived(inv[b])
  /\ LET run == [ inv[b] EXCEPT !.arrivals =
                    Append(@, [ index |-> i, fulfilled |-> s.fulfilled,
                                response |-> s.response ]) ]
         responses == responsesOf(run.arrivals)
         result == IF run.kind = "generate"
                     THEN generateHouseImageResult(responses, run.variationCount)
                     ELSE generateBaseModelViewsResult(responses[1])
     IN  IF ~s.fulfilled
           THEN Catch(b, run, TransportError)
           ELSE IF Len(run.arrivals) < run.issued
                  THEN /\ inv' = [ inv EXCEPT ![b] = run ]
                       /\ last' = Quiet
                       /\ UNCHANGED << options, budget, baseImageFile,
                                       generatedImageUrls, numberOfVariations,
                                       isLoading, error, fetchPc, calls >>
                  ELSE IF result.ok
                         THEN Succeed(b, run, result.urls)
                         ELSE Catch(b, run, result.thrown)

\* Spec: the mount effect, the two handlers with the service behind them, the
\* variations select and the reset button.  The option selects are
\* SpecOptions' and SpecPrompt's.
Next ==
  \/ \E outcome \in { "ok", "notFound", "status", "rejected" } : fetchBaseImage(outcome)
  \/ \E ok \in BOOLEAN : processBaseImage(ok)
  \/ \E value \in VariationInputs : setNumberOfVariations(value)
  \/ handleReset
  \/ handleGenerate
  \/ handleGenerateBaseViews
  \/ \E b \in Batches, outcome \in fileToPartOutcomes : fileToPart(b, outcome)
  \/ \E b \in Batches, i \in 1..MaxVariations :
       \E s \in Settlements(b, i) : settle(b, i, s)

Spec == Init /\ [][Next]_vars

\* Whatever the program awaits settles in the end: the fetch of a path
\* (App.tsx:50), response.blob() (70), the FileReader of fileToPart
\* (439-444) and every generateContent call (482, 527).
Fairness ==
  /\ WF_vars(\E outcome \in { "ok", "notFound", "status", "rejected" } :
               fetchBaseImage(outcome))
  /\ WF_vars(\E ok \in BOOLEAN : processBaseImage(ok))
  /\ WF_vars(\E b \in Batches, outcome \in fileToPartOutcomes : fileToPart(b, outcome))
  /\ WF_vars(\E b \in Batches, i \in 1..MaxVariations :
               \E s \in Settlements(b, i) : settle(b, i, s))

(***************************************************************************)
(* SpecUI: the handlers as the rendered page invokes them, through the     *)
(* three buttons of the control panel (App.tsx:308-328).  A disabled       *)
(* button dispatches no click.                                             *)
(***************************************************************************)
\* A plausible slip: buttons that are disabled only for want of a base image.
ButtonsDisabledWithoutLoading == ~baseImageFile

\* App.tsx:310, 317 and 324: disabled={isLoading || !baseImageFile}
ButtonsDisabled == isLoading \/ ~baseImageFile

\* App.tsx:308-314
clickGenerate == ~ButtonsDisabled /\ handleGenerate

\* App.tsx:315-321
clickGenerateBaseViews == ~ButtonsDisabled /\ handleGenerateBaseViews

\* App.tsx:322-328
clickReset == ~ButtonsDisabled /\ handleReset

NextUI ==
  \/ \E outcome \in { "ok", "notFound", "status", "rejected" } : fetchBaseImage(outcome)
  \/ \E ok \in BOOLEAN : processBaseImage(ok)
  \/ \E value \in VariationInputs : setNumberOfVariations(value)
  \/ clickReset
  \/ clickGenerate
  \/ clickGenerateBaseViews
  \/ \E b \in Batches, outcome \in fileToPartOutcomes : fileToPart(b, outcome)
  \/ \E b \in Batches, i \in 1..MaxVariations :
       \E s \in Settlements(b, i) : settle(b, i, s)

SpecUI == Init /\ [][NextUI]_vars

\* SpecUIFair: SpecUI where whatever the program awaits settles in the end.
SpecUIFair == SpecUI /\ Fairness

(***************************************************************************)
(* SpecOptions: the options record under change events and resets alone,   *)
(* with every name and value of NameInputs and ValueInputs.                *)
(***************************************************************************)
NextOptions ==
  \/ \E name \in NameInputs, value \in ValueInputs : handleOptionChange(name, value)
  \/ handleReset

SpecOptions == Init /\ [][NextOptions]_vars

(***************************************************************************)
(* SpecPrompt: buildPrompt as a function.  The options are drawn from the  *)
(* well-typed records that differ from initialOptions in at most           *)
(* MaxChangedFields fields; the budget and the variation count change      *)
(* between the calls.  calls keeps the first and the latest call: the      *)
(* options and the budget of the render that called, and the prompt        *)
(* returned.                                                               *)
(***************************************************************************)
WellTyped ==
  [ colorTheme : Domain("colorTheme"), doors : Domain("doors"),
    windows : Domain("windows"), frontYard : Domain("frontYard"),
    landscaping : Domain("landscaping"),
    outdoorFeatures : Domain("outdoorFeatures"),
    roof : Domain("roof"), furniture : Domain("furniture") ]

PromptInputs ==
  { r \in WellTyped :
      Cardinality({ f \in FieldNames : r[f] # initialOptions[f] }) <= MaxChangedFields }

InitPrompt ==
  /\ options \in PromptInputs
  /\ budget = BudgetMin
  /\ baseImageFile = FALSE
  /\ generatedImageUrls = << >>
  /\ numberOfVariations = 1
  /\ isLoading = TRUE
  /\ error = null
  /\ fetchPc = [ at |-> "fetch", path |-> 1 ]
  /\ inv = [ b \in Batches |-> Unused ]
  /\ last = Quiet
  /\ calls = << >>

\* App.tsx:196: const prompt = buildPrompt()
callBuildPrompt ==
  /\ LET call == [ options |-> options, budget |-> budget,
                   prompt |-> buildPrompt(options) ]
     IN  calls' = IF calls = << >> THEN << call >> ELSE << calls[1], call >>
  /\ last' = Quiet
  /\ UNCHANGED << options, budget, baseImageFile, generatedImageUrls,
                  numberOfVariations, isLoading, error, fetchPc, inv >>

NextPrompt ==
  \/ callBuildPrompt
  \/ \E value \in BudgetInputs : setBudget(value)
  \/ \E value \in VariationInputs : setNumberOfVariations(value)

SpecPrompt == InitPrompt /\ [][NextPrompt]_vars

(***************************************************************************)
(* Properties of Spec.                                                     *)
(***************************************************************************)
\* The run of a handleGenerate invocation that has just ended.
GenerateEnded ==
  /\ last.op = "handleGenerate"
  /\ last.outcome \in { "success", "failure" }

\* The response the generator gave to request i of the run.
ResponseTo(run, i) ==
  (CHOOSE k \in 1..Len(run.arrivals) : run.arrivals[k].index = i)

AllCarryImage(run) ==
  /\ Len(run.arrivals) = run.variationCount
  /\ \A k \in 1..Len(run.arrivals) :
       /\ run.arrivals[k].fulfilled
       /\ HasInlineData(run.arrivals[k].response)

SomeWithoutImage(run) ==
  \E k \in 1..Len(run.arrivals) :
    \/ ~run.arrivals[k].fulfilled
    \/ ~HasInlineData(run.arrivals[k].response)

\* C1: when all N responses of a batch carry an image, generateHouseImage
\* returns exactly N handles and handle i is the data URL of the image in the
\* response to request i, in whatever order the responses arrived.
C1_IndexAligned ==
  (GenerateEnded /\ AllCarryImage(last.run)) =>
    /\ last.outcome = "success"
    /\ Len(generatedImageUrls) = last.run.variationCount
    /\ \A i \in 1..last.run.variationCount :
         generatedImageUrls[i] =
           DataUrl(imagePartFromResponse(
                     last.run.arrivals[ResponseTo(last.run, i)].response))

\* A batch of two or more has succeeded and its first response to arrive was
\* not the one to request 1.
C1_Witness ==
  /\ GenerateEnded
  /\ last.outcome = "success"
  /\ last.run.variationCount >= 2
  /\ last.run.arrivals[1].index # 1

\* C2: when a request of the batch is rejected or answered without an image,
\* handleGenerate ends in one failure: an error is set and the results slot
\* is empty, whatever the other requests returned.
C2_AllOrNothing ==
  (GenerateEnded /\ SomeWithoutImage(last.run)) =>
    /\ last.outcome = "failure"
    /\ error # null
    /\ generatedImageUrls = << >>

\* A batch of two or more has failed after one of its requests was answered
\* with an image.
C2_Witness ==
  /\ GenerateEnded
  /\ last.outcome = "failure"
  /\ last.run.variationCount >= 2
  /\ \E k \in 1..Len(last.run.arrivals) :
       /\ last.run.arrivals[k].fulfilled
       /\ HasInlineData(last.run.arrivals[k].response)

\* C3: the requests of a batch are N in number; with N = 1 the text of the
\* request is the prompt itself, with N > 1 the text of every request is the
\* prompt followed by the one variation directive.
C3_VariationDirective ==
  \A b \in Batches :
    (inv[b].pc = "awaiting" /\ inv[b].kind = "generate") =>
      LET prompt == buildPrompt(inv[b].options)
          requests == RequestsOf(inv[b])
      IN  /\ Len(requests) = inv[b].variationCount
          /\ \A i \in 1..Len(requests) :
               requests[i].text =
                 IF inv[b].variationCount = 1
                   THEN prompt
                   ELSE prompt \o << VariationInstruction >>

\* A batch of one and a batch of two are in flight together, both with
\* their requests issued.
C3_Witness ==
  /\ inv[1].pc = "awaiting" /\ inv[1].kind = "generate" /\ inv[1].variationCount = 1
  /\ inv[2].pc = "awaiting" /\ inv[2].kind = "generate" /\ inv[2].variationCount = 2

\* C5: a handler invoked with no base image loaded sets its error and returns:
\* no run exists, and the loading flag is up only as long as the mount
\* effect, which raised it, is still fetching.
C5_FailFast ==
  last.outcome = "precondition" =>
    /\ ~baseImageFile
    /\ error = Message(IF last.op = "handleGenerate"
                         THEN "Base image is not loaded. Cannot generate a new design."
                         ELSE "Base image is not loaded. Cannot generate views.")
    /\ \A b \in Batches : inv[b] = Unused
    /\ isLoading <=> (fetchPc.at # "done")

\* handleGenerate has just failed fast after the mount effect gave up.
C5_Witness ==
  /\ last.op = "handleGenerate"
  /\ last.outcome = "precondition"
  /\ fetchPc.at = "done"
  /\ ~isLoading

\* C6: when a handler invocation has ended in failure, at the base-image
\* check or in its catch block, the results slot is empty.
C6_FailureClearsResults ==
  last.outcome \in { "precondition", "failure" } => generatedImageUrls = << >>

\* A failure has just cleared the results of an earlier batch.
C6_Witness ==
  /\ last.outcome = "failure"
  /\ last.hadResults

(***************************************************************************)
(* Properties of SpecOptions.                                              *)
(***************************************************************************)
\* C4: an option-change event whose key is not one of the eight field names
\* is rejected: the options record after the event equals the record before
\* it, no field changed and no field added.
C4_UnknownKeyRejected ==
  [][ \A name \in NameInputs \ FieldNames, value \in ValueInputs :
        handleOptionChange(name, value) => options' = options ]_vars

(***************************************************************************)
(* Properties of SpecPrompt.                                               *)
(***************************************************************************)
\* The parts of a prompt.
Parts(prompt) == { prompt[k] : k \in 1..Len(prompt) }

\* The places of the prompt where the clause opened by head stands.
ClausesAt(prompt, head) == { k \in 1..Len(prompt) : prompt[k] = head }

\* C7: with landscaping 'None' the prompt has no landscaping-theme clause;
\* with any other value the clause is there, once, and quotes that value.
C7_LandscapingClause ==
  \A c \in 1..Len(calls) :
    LET prompt == calls[c].prompt
        at == ClausesAt(prompt, LandscapingThemeHead)
    IN  IF calls[c].options.landscaping = "None"
          THEN at = { }
          ELSE /\ Cardinality(at) = 1
               /\ \A k \in at : prompt[k + 1] = calls[c].options.landscaping

\* buildPrompt has been called with a landscaping theme selected.
C7_Witness ==
  /\ calls # << >>
  /\ calls[1].options.landscaping = "Vegetable Patch"

\* C8 as stated: outdoorFeatures 'None' and furniture 'None' each leave the
\* prompt without the clause of the field, and the default options give a
\* prompt with no landscaping, outdoor-features or furniture clause.
C8_NoneSuppressesClause ==
  \A c \in 1..Len(calls) :
    LET prompt == calls[c].prompt
    IN  /\ calls[c].options.outdoorFeatures = "None" =>
             ClausesAt(prompt, OutdoorFeaturesHead) = { }
        /\ calls[c].options.furniture = "None" =>
             ClausesAt(prompt, FurnitureHead) = { }
        /\ calls[c].options = initialOptions =>
             /\ ClausesAt(prompt, LandscapingThemeHead) = { }
             /\ ClausesAt(prompt, OutdoorFeaturesHead) = { }
             /\ ClausesAt(prompt, FurnitureHead) = { }

\* C8 amended: furniture 'None' leaves the prompt without a furniture clause,
\* and any other value gives the clause once, quoting the value; the
\* outdoor-features clause is in every prompt, once, quoting the selected
\* value, 'None' included; the default options give no landscaping and no
\* furniture clause and the outdoor-features clause with 'None'.
C8_FurnitureSuppressedOutdoorKept ==
  \A c \in 1..Len(calls) :
    LET prompt == calls[c].prompt
        furnitureAt == ClausesAt(prompt, FurnitureHead)
        outdoorAt == ClausesAt(prompt, OutdoorFeaturesHead)
    IN  /\ IF calls[c].options.furniture = "None"
             THEN furnitureAt = { }
             ELSE /\ Cardinality(furnitureAt) = 1
                  /\ \A k \in furnitureAt : prompt[k + 1] = calls[c].options.furniture
        /\ Cardinality(outdoorAt) = 1
        /\ \A k \in outdoorAt : prompt[k + 1] = calls[c].options.outdoorFeatures
        /\ calls[c].options = initialOptions =>
             /\ ClausesAt(prompt, LandscapingThemeHead) = { }
             /\ furnitureAt = { }
             /\ \A k \in outdoorAt : prompt[k + 1] = "None"

\* buildPrompt has been called with the default options.
C8_Witness ==
  /\ calls # << >>
  /\ calls[1].options = initialOptions

\* C9 as stated: whatever the options, every value of the domain of every
\* one of the eight fields is in the prompt.
C9_EveryLegendInFull ==
  \A c \in 1..Len(calls) :
    \A field \in FieldNames : Domain(field) \subseteq Parts(calls[c].prompt)

\* The fields whose legend stands in the template itself.
AlwaysLegendFields ==
  { "colorTheme", "doors", "windows", "frontYard", "roof", "outdoorFeatures" }

\* C9 amended: every value of the domains of colorTheme, doors, windows,
\* frontYard, roof and outdoorFeatures is in every prompt; the values of
\* landscaping other than 'None' are in the prompt exactly when landscaping
\* is not 'None'; a value of furniture other than 'None' is in the prompt
\* exactly when it is the selected one.
C9_LegendsOfSixFields ==
  \A c \in 1..Len(calls) :
    LET parts == Parts(calls[c].prompt)
    IN  /\ \A field \in AlwaysLegendFields : Domain(field) \subseteq parts
        /\ \A value \in Domain("landscaping") \ { "None" } :
             value \in parts <=> calls[c].options.landscaping # "None"
        /\ \A value \in Domain("furniture") \ { "None" } :
             value \in parts <=> calls[c].options.furniture = value

\* buildPrompt has been called with a landscaping theme and a piece of
\* furniture selected.
C9_Witness ==
  /\ calls # << >>
  /\ calls[1].options.landscaping # "None"
  /\ calls[1].options.furniture # "None"

InFlight == { b \in Batches : inv[b].pc # "unused" }

C12_OptionsInDomain ==
  \A field \in FieldNames :
    /\ field \in DOMAIN options
    /\ options[field] \in Domain(field)

(***************************************************************************)
(* More properties of Spec.                                                *)
(***************************************************************************)
\* The requests of the run that have been answered or rejected, each counted
\* once.
EachSettledOnce(run) ==
  /\ Arrived(run) \subseteq 1..run.variationCount
  /\ Cardinality(Arrived(run)) = Len(run.arrivals)

\* C13: a generateHouseImage invocation with count N issues no request while
\* it encodes the image and, once the encoding has succeeded, has exactly N
\* requests issued, before the first response and after every response: no
\* request is issued again and each is settled at most once.
C13_AllRequestsIssuedAtOnce ==
  /\ \A b \in Batches :
       inv[b].kind = "generate" =>
         /\ inv[b].pc = "encoding" =>
              (inv[b].issued = 0 /\ inv[b].arrivals = << >>)
         /\ inv[b].pc = "awaiting" =>
              /\ inv[b].issued = inv[b].variationCount
              /\ Len(RequestsOf(inv[b])) = inv[b].variationCount
              /\ EachSettledOnce(inv[b])
  /\ (GenerateEnded /\ last.run.arrivals # << >>) =>
       /\ last.run.issued = last.run.variationCount
       /\ EachSettledOnce(last.run)

\* A batch of two has both requests issued and one of them answered.
C13_Witness ==
  \E b \in Batches :
    /\ inv[b].pc = "awaiting"
    /\ inv[b].kind = "generate"
    /\ inv[b].variationCount = 2
    /\ inv[b].issued = 2
    /\ Len(inv[b].arrivals) = 1

\* Every request of the run has been answered, none rejected.
AllAnswered(run) ==
  /\ Len(run.arrivals) = run.variationCount
  /\ \A k \in 1..Len(run.arrivals) : run.arrivals[k].fulfilled

\* The requests of the run whose response carries no image.
AnsweredWithoutImage(run) ==
  { run.arrivals[k].index : k \in { j \in 1..Len(run.arrivals) :
                                      /\ run.arrivals[j].fulfilled
                                      /\ ~HasInlineData(run.arrivals[j].response) } }

\* C14: when every request of a batch has been answered and some response
\* carries no image, the failure names the 1-based position of the
\* lowest-indexed response without an image.
C14_FailureNamesFirstMissing ==
  (GenerateEnded /\ AllAnswered(last.run) /\ AnsweredWithoutImage(last.run) # { }) =>
    /\ last.outcome = "failure"
    /\ \E i \in AnsweredWithoutImage(last.run) :
         /\ \A j \in AnsweredWithoutImage(last.run) : i <= j
         /\ error = Message("Failed to generate the image. "
                              \o "The AI model did not return an image for variation "
                              \o ToString(i) \o ".")

\* A batch of two has failed with both responses lacking an image, the
\* response to request 2 having arrived first.
C14_Witness ==
  /\ GenerateEnded
  /\ last.run.variationCount = 2
  /\ AllAnswered(last.run)
  /\ AnsweredWithoutImage(last.run) = { 1, 2 }
  /\ last.run.arrivals[1].index = 2


\* C15: generateHouseImage never ends with the count-mismatch failure: when
\* every request has been answered with an image the batch succeeds with a
\* list of N handles, and the error never holds the count-mismatch message.
C15_NoCountMismatch ==
  /\ error # Message("Failed to generate the image. "
                       \o "The number of generated images did not match the requested count.")
  /\ (GenerateEnded /\ AllAnswered(last.run) /\ AnsweredWithoutImage(last.run) = { }) =>
       /\ last.outcome = "success"
       /\ Len(generatedImageUrls) = last.run.variationCount

\* The extraction of a batch of two has completed and the final check of
\* the count has been passed.
C15_Witness ==
  /\ GenerateEnded
  /\ last.run.variationCount = 2
  /\ AllAnswered(last.run)
  /\ AnsweredWithoutImage(last.run) = { }
  /\ Len(generatedImageUrls) = 2


(***************************************************************************)
(* Properties of SpecUIFair.                                               *)
(***************************************************************************)
\* A handler has passed the base-image check in this step.
HandlerStarted ==
  \E b \in Batches : inv[b].pc = "unused" /\ inv'[b].pc = "encoding"

\* C16: an invocation that passes the base-image check raises the loading
\* flag; when an invocation has ended, in success or in failure, the flag is
\* down; and, everything awaited settling in the end, a raised flag is
\* lowered again.
C16_LoadingFlagLowered ==
  /\ [][HandlerStarted => isLoading']_vars
  /\ [](last.outcome \in { "success", "failure" } => ~isLoading)
  /\ (isLoading ~> ~isLoading)

\* A batch has just been rejected by the generator and the flag is down.
C16_Witness ==
  /\ last.outcome = "failure"
  /\ last.run.pc = "awaiting"
  /\ \E k \in 1..Len(last.run.arrivals) : ~last.run.arrivals[k].fulfilled
  /\ ~isLoading

====
